---- MODULE Spec2Model ----
(***************************************************************************)
(* Model of the countdown route of the mixer frontend                      *)
(* (src/frontend/ts/routes/countdown.tsx): the React function component    *)
(* that waits for the expiry of a deposit, then (or on a click) runs the   *)
(* asynchronous withdraw() pipeline and records its outcome.               *)
(*                                                                         *)
(* React (legacy, synchronous mode) is modelled as follows: every handler  *)
(* that sets hook state is followed, in the same step, by the re-render    *)
(* of the component (operator Render), which re-reads the store and runs   *)
(* the render-time automatic trigger.  Every await of withdraw() is a      *)
(* suspension point, hence one action per awaited call.                    *)
(*                                                                         *)
(* Time is counted in abstract units; one UTC day is DayLen units.         *)
(***************************************************************************)
EXTENDS Integers, Sequences, FiniteSets, TLC

\* ---------------------------------------------------------------- bounds
DayLen == 3          \* units per UTC day
MaxTime == 4         \* the clock stops advancing here
MaxRecords == 2      \* deposit records in the store at activation
MaxClicks == 2       \* presses of the manual trigger that are recorded
MaxCalls == 2        \* invocations of withdraw() that are tracked

\* config.frontend.countdown.endsAfterSecs (dev-only delay), in units
EndsAfterSecs == 2

Timestamps == {2}        \* deposit timestamps (inside UTC day 0)
StartTimes == 2..4       \* instants at which the page is first loaded
DstShifts == {0, 1}      \* growth of the local UTC offset over the expiry day
TxHashes == {"0xabc", "0xdef"}
ForeignHash == "0x999"   \* the hash another tab stores for its own withdrawal

VARIABLES
    store,               \* storage: record id -> [timestamp, withdrawTxHash]
    now,                 \* wall clock (new Date())
    dstShift,            \* local-timezone offset change (client environment)
    endsAtMidnight,      \* config.frontend.countdown.endsAtUtcMidnight
    ctxConnector,        \* context.connector is set
    ctxError,            \* context.error: "none" or an error code
    mounted,             \* the component is rendered (not redirected to '/')
    identityStored,      \* getFirstUnwithdrawn() as read by the last render
    txHash, firstLoadTime, withdrawStarted, countdownDone,
    proofGenProgress, showAdvanced, withdrawBtnClicked, errorMsg,
    timerState,          \* useTimer: "init" (effect not run), "running", "stopped"
    timerExpiry,         \* useTimer: the expiryTimestamp kept from the first render
    timerLeft,           \* useTimer: days + hours + minutes + seconds
    calls,               \* the invocations of withdraw(), in order
    presses,             \* history: presses of the manual trigger so far
    pressInFlight,       \* history: the last press came during an attempt
    storeWrites,         \* history: calls of updateWithdrawTxHash
    shownExpiry          \* expiryTimestamp as computed by the last render (timeStr)

vars == <<store, now, dstShift, endsAtMidnight, ctxConnector, ctxError, mounted,
          identityStored, txHash, firstLoadTime, withdrawStarted, countdownDone,
          proofGenProgress, showAdvanced, withdrawBtnClicked, errorMsg,
          timerState, timerExpiry, timerLeft, calls, presses, pressInFlight,
          storeWrites, shownExpiry>>

hookVars == <<txHash, firstLoadTime, withdrawBtnClicked, showAdvanced,
              proofGenProgress, errorMsg>>
envVars == <<now, dstShift, endsAtMidnight, ctxConnector, ctxError>>
timerVars == <<timerState, timerExpiry, timerLeft>>

\* ------------------------------------------------------------- the store
Unwithdrawn(st) == {r \in DOMAIN st : st[r].withdrawTxHash = ""}

getNumUnwithdrawn(st) == Cardinality(Unwithdrawn(st))

getFirstUnwithdrawn(st) ==
    CHOOSE r \in Unwithdrawn(st) : \A q \in Unwithdrawn(st) : r <= q

updateWithdrawTxHash(st, r, h) == [st EXCEPT ![r].withdrawTxHash = h]

\* ------------------------------------------------------------ the expiry
\* expiryTimestamp.setUTCHours(0, 0, 0, 0)
SetUTCHoursZero(t) == t - (t % DayLen)

\* expiryTimestamp.setDate(expiryTimestamp.getDate() + 1): the next LOCAL
\* calendar day at the same local wall-clock time; when the local UTC offset
\* grows by dstShift in between, that instant comes dstShift units earlier.
SetDatePlusOne(t) == t + DayLen - dstShift

MidnightExpiry(r) == SetDatePlusOne(SetUTCHoursZero(store[r].timestamp))

\* a classification that compares the current instant
midnightOver_UsesNow(r) == now > MidnightExpiry(r)

midnightOver(r) == firstLoadTime > MidnightExpiry(r)

\* an override that applies whenever the midnight policy is disabled
DevExpiry_IgnoresMidnightOver(r) == ~endsAtMidnight

\* the dev-only override of the expiry
DevExpiry(r) == ~endsAtMidnight /\ ~midnightOver(r)

\* expiryTimestamp as a render at instant t computes it
ExpiryAt(r, t) ==
    IF DevExpiry(r) THEN t + EndsAfterSecs ELSE MidnightExpiry(r)

expiryTimestamp(r) == ExpiryAt(r, now)

\* ------------------------------------------------------------ withdraw()
Running == {"getProvider", "getBalanceBefore", "getMixerContract", "getLeaves",
            "genTree", "genPathElementsAndIndex", "element_index", "path",
            "fetchCircuit", "circuitJson", "fetchProvingKey", "provingKeyBuffer",
            "fetchVerificationKey", "verificationKeyJson", "genProof",
            "postApi", "responseJson", "sleep", "getBalanceAfter"}

\* "done": returned (normally or through the catch block); "returned": the
\* early return without a connector; "rejected": an exception raised before
\* the try block left the async function as a rejected promise.
Finished == {"done", "returned", "rejected"}

\* withdraw(context) up to its first await
Withdraw(r, trigger) ==
    [pc      |-> IF ctxConnector THEN "getProvider" ELSE "returned",
     log     |-> IF ctxConnector THEN <<"getProvider">> ELSE <<>>,
     fail    |-> "none",      \* the call that failed
     err     |-> "none",      \* the shape of the value thrown
     resp    |-> "none",      \* what the relayer answered
     hash    |-> "",          \* responseJson.result.txHash
     rec     |-> r,           \* identityStored of the closure
     trigger |-> trigger,
     ctxErr  |-> ctxError]

\* a catch block with a final else that reports every other exception
CatchBlock_ReportsAll(err, msg) ==
    CASE err = "CONTRACT_NOT_DEPLOYED" ->
             "The mixer contract was not deployed to the expected address"
      [] err = "WITNESS_GEN_ERROR" -> "Could not generate witness."
      [] err = "INVALID_WITNESS" -> "Invalid witness."
      [] err = "INVALID_PROOF" -> "Invalid proof."
      [] err = "INVALID_SIG" -> "Invalid signature."
      [] err = "TX_FAILED" -> "The transaction failed."
      [] err = "PRE_BROADCAST_CHECK_FAILED" -> "The pre-broadcast check failed"
      [] OTHER -> "The transaction failed."

\* the catch block without its last branch
CatchBlock_NoPreBroadcast(err, msg) ==
    CASE err = "CONTRACT_NOT_DEPLOYED" ->
             "The mixer contract was not deployed to the expected address"
      [] err = "WITNESS_GEN_ERROR" -> "Could not generate witness."
      [] err = "INVALID_WITNESS" -> "Invalid witness."
      [] err = "INVALID_PROOF" -> "Invalid proof."
      [] err = "INVALID_SIG" -> "Invalid signature."
      [] err = "TX_FAILED" -> "The transaction failed."
      [] OTHER -> msg

\* the if / else-if chain of the catch block; the state of errorMsg after it
CatchBlock(err, msg) ==
    CASE err = "CONTRACT_NOT_DEPLOYED" ->
             "The mixer contract was not deployed to the expected address"
      [] err = "WITNESS_GEN_ERROR" -> "Could not generate witness."
      [] err = "INVALID_WITNESS" -> "Invalid witness."
      [] err = "INVALID_PROOF" -> "Invalid proof."
      [] err = "INVALID_SIG" -> "Invalid signature."
      [] err = "TX_FAILED" -> "The transaction failed."
      [] err = "PRE_BROADCAST_CHECK_FAILED" -> "The pre-broadcast check failed"
      [] OTHER -> msg

\* ------------------------------------------------------------ the render
\* the automatic trigger without the test of the latch
AutoTrigger_NoLatch(ws, cd, over, left) ==
    cd /\ ~over /\ left = 0

\* an automatic trigger that does not test midnightOver
AutoTrigger_IgnoresMidnight(ws, cd, over, left) ==
    ~ws /\ cd /\ left = 0

\* the condition of the render-time automatic trigger
AutoTrigger(ws, cd, over, left) ==
    ~ws /\ cd /\ ~over /\ left = 0

\* One run of the component function at instant t after hook state changed:
\* ws, cd, left and cs are withdrawStarted, countdownDone, the timer's
\* remaining time and the withdraw() invocations as the handler left them.
RenderAt(t, ws, cd, left, cs) ==
    IF ~mounted
    THEN /\ withdrawStarted' = withdrawStarted
         /\ calls' = cs
         /\ UNCHANGED <<mounted, identityStored, shownExpiry>>
    ELSE IF getNumUnwithdrawn(store) = 0
    THEN /\ mounted' = FALSE       \* <Redirect to='/' />
         /\ withdrawStarted' = ws
         /\ calls' = cs
         /\ UNCHANGED <<identityStored, shownExpiry>>
    ELSE LET r == getFirstUnwithdrawn(store) IN
         /\ identityStored' = r
         /\ shownExpiry' = ExpiryAt(r, t)
         /\ UNCHANGED mounted
         /\ IF AutoTrigger(ws, cd, midnightOver(r), left) /\ Len(cs) < MaxCalls
            THEN /\ withdrawStarted' = TRUE
                 /\ calls' = Append(cs, Withdraw(r, "auto"))
            ELSE /\ withdrawStarted' = ws
                 /\ calls' = cs

\* a render at the current instant
Render(ws, cd, left, cs) == RenderAt(now, ws, cd, left, cs)

NoRender == UNCHANGED <<mounted, identityStored, withdrawStarted, shownExpiry>>

\* ------------------------------------------------------------------ Init
Init ==
    /\ \E n \in 1..MaxRecords :
         store \in [1..n -> [timestamp : Timestamps, withdrawTxHash : {""}]]
    /\ now \in StartTimes
    /\ dstShift \in DstShifts
    /\ endsAtMidnight \in BOOLEAN
    /\ ctxConnector \in BOOLEAN
    /\ ctxError \in {"none", "UNSUPPORTED_NETWORK"}
    /\ mounted = TRUE
    /\ identityStored = 1
    /\ txHash = ""
    /\ firstLoadTime = now
    /\ withdrawStarted = FALSE
    /\ countdownDone = FALSE
    /\ proofGenProgress = ""
    /\ showAdvanced = FALSE
    /\ withdrawBtnClicked = FALSE
    /\ errorMsg = ""
    /\ timerState = "init"
    /\ timerExpiry = expiryTimestamp(1)
    /\ shownExpiry = expiryTimestamp(1)
    /\ timerLeft = 0
    /\ calls = <<>>
    /\ presses = 0
    /\ pressInFlight = FALSE
    /\ storeWrites = <<>>

\* ------------------------------------------------------------- the timer
\* useTimer (react-timer-hook) finds no time left at instant t
NoTimeLeft(expiry, t) == expiry - t <= 0

\* an onExpire that never sets the flag
OnExpire_Forgets(cd) == cd

\* onExpire: if (!countdownDone) { setCountdownDone(true) }
OnExpire(cd) == IF ~cd THEN TRUE ELSE cd

\* useTimer's effect after the first render: start()
TimerStart ==
    /\ timerState = "init"
    /\ IF ~NoTimeLeft(timerExpiry, now)
       THEN /\ timerState' = "running"
            /\ timerLeft' = timerExpiry - now
            /\ UNCHANGED countdownDone
            /\ Render(withdrawStarted, countdownDone, timerExpiry - now, calls)
       ELSE \* the expiry is already past: the timer's first evaluation finds
            \* no time left and calls onExpire
            /\ timerState' = "stopped"
            /\ timerLeft' = 0
            /\ countdownDone' = OnExpire(countdownDone)
            /\ Render(withdrawStarted, OnExpire(countdownDone), 0, calls)
    /\ UNCHANGED <<store, envVars, hookVars, timerExpiry, presses, pressInFlight, storeWrites>>

\* one period of the timer's interval: the clock advances, and a running
\* timer re-evaluates the remaining time, calling onExpire when none is left
Tick ==
    /\ timerState # "init"
    /\ now < MaxTime
    /\ now' = now + 1
    /\ IF mounted /\ timerState = "running"
       THEN IF ~NoTimeLeft(timerExpiry, now')
            THEN /\ timerLeft' = timerExpiry - now'
                 /\ UNCHANGED <<timerState, countdownDone>>
                 /\ RenderAt(now + 1, withdrawStarted, countdownDone, timerExpiry - now', calls)
            ELSE /\ timerLeft' = 0
                 /\ timerState' = "stopped"
                 /\ countdownDone' = OnExpire(countdownDone)
                 /\ RenderAt(now + 1, withdrawStarted, OnExpire(countdownDone), 0, calls)
       ELSE /\ UNCHANGED <<timerState, timerLeft, countdownDone, calls>>
            /\ NoRender
    /\ UNCHANGED <<store, dstShift, endsAtMidnight, ctxConnector, ctxError,
                   hookVars, timerExpiry, presses, pressInFlight, storeWrites>>

\* ------------------------------------------------------- the chain context
\* useWeb3Context() reports a new connector / error state and the component
\* renders again. Once the latch is set every test of context in the component
\* is conjoined with !withdrawStarted and withdraw() keeps the context it was
\* called with, so from then on only the re-render is followed, not the values.
ContextChange ==
    /\ timerState # "init"
    /\ \E c \in BOOLEAN, e \in {"none", "UNSUPPORTED_NETWORK"} :
         /\ <<c, e>> # <<ctxConnector, ctxError>>
         /\ ctxConnector' = IF withdrawStarted THEN ctxConnector ELSE c
         /\ ctxError' = IF withdrawStarted THEN ctxError ELSE e
    /\ UNCHANGED countdownDone
    /\ Render(withdrawStarted, countdownDone, timerLeft, calls)
    /\ UNCHANGED <<store, now, dstShift, endsAtMidnight, hookVars, timerVars,
                   presses, pressInFlight, storeWrites>>

\* ------------------------------------------------------------ the view
\* the section with the countdown and the advanced options is rendered
AdvancedShown ==
    /\ ~(txHash = "" /\ midnightOver(identityStored) /\ ~withdrawStarted)
    /\ ~withdrawBtnClicked
    /\ ~withdrawStarted

\* "shortly after {timeStr} local time" is part of the rendered page
TimeStrShown ==
    /\ mounted
    /\ ~(countdownDone \/ midnightOver(identityStored) \/ withdrawBtnClicked)

\* "{timer.hours}h {timer.minutes}m {timer.seconds}s left" is part of the
\* rendered page
CountdownShown == mounted /\ AdvancedShown

\* withdrawBtn rendered whether or not an attempt has started
WithdrawBtnShown_AfterStart ==
    /\ mounted
    /\ ctxError = "none"
    /\ \/ txHash = "" /\ midnightOver(identityStored)
       \/ ~withdrawBtnClicked /\ showAdvanced

\* withdrawBtn is part of the rendered page
WithdrawBtnShown ==
    /\ mounted
    /\ ctxError = "none"
    /\ \/ txHash = "" /\ midnightOver(identityStored) /\ ~withdrawStarted
       \/ AdvancedShown /\ showAdvanced

\* the onClick handler without setWithdrawStarted(true)
OnClickLatch_Forgets(ws) == ws

\* the value of withdrawStarted when the onClick handler of withdrawBtn ends
OnClickLatch(ws) == IF ~ws THEN TRUE ELSE ws

\* the onClick handler of withdrawBtn, then the re-render of its batched updates
WithdrawBtnOnClick ==
    /\ withdrawBtnClicked' = TRUE
    /\ showAdvanced' = FALSE
    /\ UNCHANGED countdownDone
    /\ Render(OnClickLatch(withdrawStarted), countdownDone, timerLeft,
              IF ~withdrawStarted /\ Len(calls) < MaxCalls
              THEN Append(calls, Withdraw(identityStored, "manual"))
              ELSE calls)

InFlight == \E i \in DOMAIN calls : calls[i].pc \in Running

\* the user presses the manual trigger: the handler runs when the button is on
\* the page, and nothing happens when it is not
ManualTrigger ==
    /\ timerState # "init"
    /\ presses < MaxClicks
    /\ IF WithdrawBtnShown
       THEN WithdrawBtnOnClick
       ELSE /\ UNCHANGED <<withdrawBtnClicked, showAdvanced, countdownDone, calls>>
            /\ NoRender
    /\ presses' = presses + 1
    /\ pressInFlight' = InFlight
    /\ UNCHANGED <<store, envVars, timerVars, txHash, firstLoadTime,
                   proofGenProgress, errorMsg, storeWrites>>

\* onClick of "Advanced options"
ToggleAdvanced ==
    /\ timerState # "init"
    /\ AdvancedShown
    /\ showAdvanced' = ~showAdvanced
    /\ UNCHANGED countdownDone
    /\ Render(withdrawStarted, countdownDone, timerLeft, calls)
    /\ UNCHANGED <<store, envVars, timerVars, txHash, firstLoadTime,
                   withdrawBtnClicked, proofGenProgress, errorMsg, presses,
                   pressInFlight, storeWrites>>

\* ------------------------------------------------- the steps of withdraw()
Proceed(a, pc, invoked) == [a EXCEPT !.pc = pc, !.log = a.log \o invoked]

\* an exception raised inside the try block: the catch block runs, withdraw returns
Thrown(a, call, err) == [a EXCEPT !.pc = "done", !.fail = call, !.err = err]

\* an exception raised before the try block: the promise of withdraw() rejects
Escaped(a, call) == [a EXCEPT !.pc = "rejected", !.fail = call, !.err = "OTHER"]

Upd(i, a) == [calls EXCEPT ![i] = a]

pipelineFrame ==
    UNCHANGED <<envVars, timerVars, countdownDone, firstLoadTime,
                withdrawBtnClicked, showAdvanced, presses, pressInFlight>>

\* the step sets no hook state
EndQuiet(cs) ==
    /\ calls' = cs
    /\ NoRender
    /\ UNCHANGED <<proofGenProgress, errorMsg, txHash, store, storeWrites>>
    /\ pipelineFrame

\* the step ends with progress(line)
EndProgress(line, cs) ==
    /\ proofGenProgress' = IF mounted THEN line ELSE proofGenProgress
    /\ Render(withdrawStarted, countdownDone, timerLeft, cs)
    /\ UNCHANGED <<errorMsg, txHash, store, storeWrites>>
    /\ pipelineFrame

\* the step ends in the catch block
EndCatch(err, cs) ==
    /\ errorMsg' = IF mounted THEN CatchBlock(err, errorMsg) ELSE errorMsg
    /\ IF errorMsg' # errorMsg
       THEN Render(withdrawStarted, countdownDone, timerLeft, cs)
       ELSE calls' = cs /\ NoRender
    /\ UNCHANGED <<proofGenProgress, txHash, store, storeWrites>>
    /\ pipelineFrame

\* the shapes of the exceptions of the external calls: a call on the contract
\* may report that the contract is not deployed, any call may fail otherwise
ContractErrors == {"CONTRACT_NOT_DEPLOYED", "OTHER"}

\* checks whose result is ignored
InvalidWitness_Never(checked) == FALSE
InvalidProof_Never(isVerified) == FALSE

\* the checks of withdraw() that throw
\* a signature check that never rejects
InvalidSig_Never(validSig) == FALSE

InvalidSig(validSig) == ~validSig
InvalidWitness(checked) == ~checked
InvalidProof(isVerified) == ~isVerified

\* a write to the record the latest render read from the store
WrittenRecord_Reread(a) == identityStored

\* the record passed to updateWithdrawTxHash: identityStored of the closure
WrittenRecord(a) == a.rec

\* the first unwithdrawn record of the store, 0 when there is none
FirstOrNone(st) == IF getNumUnwithdrawn(st) = 0 THEN 0 ELSE getFirstUnwithdrawn(st)

\* await context.connector.getProvider(config.chain.chainId)
GetProviderReturns ==
    \E i \in DOMAIN calls : LET a == calls[i] IN
      /\ a.pc = "getProvider"
      /\ \/ EndQuiet(Upd(i, Proceed(a, "getBalanceBefore", <<"getBalance">>)))
         \/ EndQuiet(Upd(i, Escaped(a, "getProvider")))

\* const recipientBalanceBefore = await provider.getBalance(recipientAddress)
GetBalanceBeforeReturns ==
    \E i \in DOMAIN calls : LET a == calls[i] IN
      /\ a.pc = "getBalanceBefore"
      /\ \/ EndQuiet(Upd(i, Proceed(a, "getMixerContract", <<"getMixerContract">>)))
         \/ EndQuiet(Upd(i, Escaped(a, "getBalance")))

\* await getMixerContract(context); progress; mixerContract.getLeaves()
GetMixerContractReturns ==
    \E i \in DOMAIN calls : LET a == calls[i] IN
      /\ a.pc = "getMixerContract"
      /\ \/ EndProgress("Downloading leaves...",
                        Upd(i, Proceed(a, "getLeaves", <<"getLeaves">>)))
         \/ \E e \in ContractErrors :
              EndCatch(e, Upd(i, Thrown(a, "getMixerContract", e)))

\* const leaves = await mixerContract.getLeaves(); genTree(leaves)
GetLeavesReturns ==
    \E i \in DOMAIN calls : LET a == calls[i] IN
      /\ a.pc = "getLeaves"
      /\ \/ EndQuiet(Upd(i, Proceed(a, "genTree", <<"genTree">>)))
         \/ \E e \in ContractErrors :
              EndCatch(e, Upd(i, Thrown(a, "getLeaves", e)))

\* const tree = await genTree(leaves); genPubKey; genIdentityCommitment;
\* genPathElementsAndIndex(tree, identityCommitment)
GenTreeReturns ==
    \E i \in DOMAIN calls : LET a == calls[i] IN
      /\ a.pc = "genTree"
      /\ \/ EndQuiet(Upd(i, Proceed(a, "genPathElementsAndIndex",
                <<"genPubKey", "genIdentityCommitment", "genPathElementsAndIndex">>)))
         \/ EndCatch("OTHER", Upd(i, Thrown(a, "genTree", "OTHER")))

\* await genPathElementsAndIndex(...); tree.element_index(identityCommitment)
GenPathElementsAndIndexReturns ==
    \E i \in DOMAIN calls : LET a == calls[i] IN
      /\ a.pc = "genPathElementsAndIndex"
      /\ \/ EndQuiet(Upd(i, Proceed(a, "element_index", <<"element_index">>)))
         \/ EndCatch("OTHER", Upd(i, Thrown(a, "genPathElementsAndIndex", "OTHER")))

\* const leafIndex = await tree.element_index(...); tree.path(leafIndex)
ElementIndexReturns ==
    \E i \in DOMAIN calls : LET a == calls[i] IN
      /\ a.pc = "element_index"
      /\ \/ EndQuiet(Upd(i, Proceed(a, "path", <<"path">>)))
         \/ EndCatch("OTHER", Upd(i, Thrown(a, "element_index", "OTHER")))

\* const identityPath = await tree.path(leafIndex); genSignalAndSignalHash;
\* genSignedMsg; verifySignature; progress; fetch(circuit)
PathReturns ==
    \E i \in DOMAIN calls : LET a == calls[i] IN
      /\ a.pc = "path"
      /\ \/ \E validSig \in BOOLEAN :
              LET b == Proceed(a, "path",
                         <<"genSignalAndSignalHash", "genSignedMsg", "verifySignature">>)
              IN IF InvalidSig(validSig)
                 THEN EndCatch("INVALID_SIG",
                               Upd(i, Thrown(b, "verifySignature", "INVALID_SIG")))
                 ELSE EndProgress("Downloading circuit...",
                        Upd(i, [Proceed(b, "fetchCircuit", <<"fetchCircuit">>)
                                  EXCEPT !.fail = IF validSig THEN "none"
                                                  ELSE "verifySignature"]))
         \/ EndCatch("OTHER", Upd(i, Thrown(a, "path", "OTHER")))

\* await fetch(config.frontend.snarks.paths.circuit); .json()
FetchCircuitReturns ==
    \E i \in DOMAIN calls : LET a == calls[i] IN
      /\ a.pc = "fetchCircuit"
      /\ \/ EndQuiet(Upd(i, Proceed(a, "circuitJson", <<"circuitJson">>)))
         \/ EndCatch("OTHER", Upd(i, Thrown(a, "fetchCircuit", "OTHER")))

\* const cirDef = await (...).json(); genCircuit; genWitness; checkWitness;
\* progress; fetch(provingKey)
CircuitJsonReturns ==
    \E i \in DOMAIN calls : LET a == calls[i] IN
      /\ a.pc = "circuitJson"
      /\ \/ \E checked \in BOOLEAN :
              LET b == Proceed(a, "circuitJson",
                               <<"genCircuit", "genWitness", "checkWitness">>)
              IN IF InvalidWitness(checked)
                 THEN EndCatch("INVALID_WITNESS",
                               Upd(i, Thrown(b, "checkWitness", "INVALID_WITNESS")))
                 ELSE EndProgress("Downloading proving key...",
                        Upd(i, [Proceed(b, "fetchProvingKey", <<"fetchProvingKey">>)
                                  EXCEPT !.fail = IF checked THEN "none"
                                                  ELSE "checkWitness"]))
         \/ \* genWitness throws: caught, rethrown as WITNESS_GEN_ERROR
            EndCatch("WITNESS_GEN_ERROR",
                     Upd(i, Thrown(Proceed(a, "circuitJson", <<"genCircuit", "genWitness">>),
                                   "genWitness", "WITNESS_GEN_ERROR")))
         \/ EndCatch("OTHER", Upd(i, Thrown(a, "circuitJson", "OTHER")))

\* await fetch(config.frontend.snarks.paths.provingKey); .arrayBuffer()
FetchProvingKeyReturns ==
    \E i \in DOMAIN calls : LET a == calls[i] IN
      /\ a.pc = "fetchProvingKey"
      /\ \/ EndQuiet(Upd(i, Proceed(a, "provingKeyBuffer", <<"provingKeyBuffer">>)))
         \/ EndCatch("OTHER", Upd(i, Thrown(a, "fetchProvingKey", "OTHER")))

\* new Uint8Array(await (...).arrayBuffer()); progress; fetch(verificationKey)
ProvingKeyBufferReturns ==
    \E i \in DOMAIN calls : LET a == calls[i] IN
      /\ a.pc = "provingKeyBuffer"
      /\ \/ EndProgress("Downloading verification key...",
               Upd(i, Proceed(a, "fetchVerificationKey", <<"fetchVerificationKey">>)))
         \/ EndCatch("OTHER", Upd(i, Thrown(a, "provingKeyBuffer", "OTHER")))

\* await fetch(config.frontend.snarks.paths.verificationKey); .json()
FetchVerificationKeyReturns ==
    \E i \in DOMAIN calls : LET a == calls[i] IN
      /\ a.pc = "fetchVerificationKey"
      /\ \/ EndQuiet(Upd(i, Proceed(a, "verificationKeyJson", <<"verificationKeyJson">>)))
         \/ EndCatch("OTHER", Upd(i, Thrown(a, "fetchVerificationKey", "OTHER")))

\* unstringifyBigInts(await (...).json()); progress; genProof(w, provingKey.buffer)
VerificationKeyJsonReturns ==
    \E i \in DOMAIN calls : LET a == calls[i] IN
      /\ a.pc = "verificationKeyJson"
      /\ \/ EndProgress("Generating proof...",
               Upd(i, Proceed(a, "genProof", <<"unstringifyBigInts", "genProof">>)))
         \/ EndCatch("OTHER", Upd(i, Thrown(a, "verificationKeyJson", "OTHER")))

\* const proof = await genProof(...); genPublicSignals; verifyProof;
\* genMixParams; progress; fetch('/api', POST)
GenProofReturns ==
    \E i \in DOMAIN calls : LET a == calls[i] IN
      /\ a.pc = "genProof"
      /\ \/ \E isVerified \in BOOLEAN :
              LET b == Proceed(a, "genProof", <<"genPublicSignals", "verifyProof">>)
              IN IF InvalidProof(isVerified)
                 THEN EndCatch("INVALID_PROOF",
                               Upd(i, Thrown(b, "verifyProof", "INVALID_PROOF")))
                 ELSE EndProgress("Sending JSON-RPC call to the relayer...",
                        Upd(i, [Proceed(b, "postApi", <<"genMixParams", "postApi">>)
                                  EXCEPT !.fail = IF isVerified THEN "none"
                                                  ELSE "verifyProof"]))
         \/ EndCatch("OTHER", Upd(i, Thrown(a, "genProof", "OTHER")))

\* const response = await fetch('/api', ...); response.json()
PostApiReturns ==
    \E i \in DOMAIN calls : LET a == calls[i] IN
      /\ a.pc = "postApi"
      /\ \/ EndQuiet(Upd(i, Proceed(a, "responseJson", <<"responseJson">>)))
         \/ EndCatch("OTHER", Upd(i, [Thrown(a, "postApi", "OTHER")
                                        EXCEPT !.resp = "transport"]))

\* the answers of the relayer: { result: { txHash } }, { error: { data: { name } } }
\* with the pre-broadcast name or with another one, and anything else (no
\* JSON, or neither result nor error.data)
Responses == {"result", "preBroadcast", "otherError", "malformed"}

\* if (responseJson), true of every parsed answer
HasResult_AnyAnswer(resp) == TRUE

\* if (responseJson.result)
HasResult(resp) == resp = "result"

\* else if (responseJson.error.data.name === 'BACKEND_MIX_PROOF_PRE_BROADCAST_INVALID')
IsPreBroadcast(resp) == resp = "preBroadcast"

\* const responseJson = await response.json(), and the handling of the answer
ResponseJsonReturns ==
    \E i \in DOMAIN calls, resp \in Responses : LET a == calls[i] IN
      /\ a.pc = "responseJson"
      /\ IF resp = "malformed"
         THEN \* response.json() rejects, or reading error.data.name throws
              EndCatch("OTHER", Upd(i, [Thrown(a, "responseJson", "OTHER")
                                          EXCEPT !.resp = resp]))
         ELSE IF HasResult(resp)
         THEN \* progress(''), setTxHash, updateWithdrawTxHash, sleep(4000)
              \E h \in TxHashes :
                /\ proofGenProgress' = IF mounted THEN "" ELSE proofGenProgress
                /\ txHash' = IF mounted THEN h ELSE txHash
                /\ Render(withdrawStarted, countdownDone, timerLeft,
                          Upd(i, [Proceed(a, "sleep", <<"updateWithdrawTxHash", "sleep">>)
                                    EXCEPT !.resp = resp, !.hash = h]))
                /\ store' = updateWithdrawTxHash(store, WrittenRecord(a), h)
                /\ storeWrites' = Append(storeWrites,
                                         [rec |-> WrittenRecord(a), hash |-> h, by |-> i,
                                          first |-> FirstOrNone(store)])
                /\ UNCHANGED errorMsg
                /\ pipelineFrame
         ELSE IF IsPreBroadcast(resp)
         THEN EndCatch("PRE_BROADCAST_CHECK_FAILED",
                       Upd(i, [Thrown(a, "relayer", "PRE_BROADCAST_CHECK_FAILED")
                                 EXCEPT !.resp = resp]))
         ELSE \* neither branch is taken: withdraw() returns
              EndQuiet(Upd(i, [a EXCEPT !.pc = "done", !.fail = "relayer",
                                        !.resp = resp]))

\* await sleep(4000); provider.getBalance(recipientAddress)
SleepReturns ==
    \E i \in DOMAIN calls : LET a == calls[i] IN
      /\ a.pc = "sleep"
      /\ EndQuiet(Upd(i, Proceed(a, "getBalanceAfter", <<"getBalance">>)))

\* const recipientBalanceAfter = await provider.getBalance(recipientAddress)
GetBalanceAfterReturns ==
    \E i \in DOMAIN calls : LET a == calls[i] IN
      /\ a.pc = "getBalanceAfter"
      /\ \/ EndQuiet(Upd(i, [a EXCEPT !.pc = "done"]))
         \/ EndCatch("OTHER", Upd(i, Thrown(a, "getBalance", "OTHER")))

\* --------------------------------------------------------- the environment
\* One other tab of the same origin completes the withdrawal of the first
\* unwithdrawn record: the store is shared, this page is not re-rendered. Its
\* own latch lets that tab run one attempt, so it writes at most once.
OtherTabWithdraws ==
    /\ timerState # "init"
    /\ getNumUnwithdrawn(store) > 0
    /\ \A r \in DOMAIN store : store[r].withdrawTxHash # ForeignHash
    /\ store' = updateWithdrawTxHash(store, getFirstUnwithdrawn(store), ForeignHash)
    /\ NoRender
    /\ UNCHANGED <<envVars, hookVars, timerVars, countdownDone, calls, presses,
                   pressInFlight, storeWrites>>

\* ------------------------------------------------------ the specification
Next ==
    \/ TimerStart
    \/ Tick
    \/ ContextChange
    \/ ManualTrigger
    \/ ToggleAdvanced
    \/ OtherTabWithdraws
    \/ GetProviderReturns
    \/ GetBalanceBeforeReturns
    \/ GetMixerContractReturns
    \/ GetLeavesReturns
    \/ GenTreeReturns
    \/ GenPathElementsAndIndexReturns
    \/ ElementIndexReturns
    \/ PathReturns
    \/ FetchCircuitReturns
    \/ CircuitJsonReturns
    \/ FetchProvingKeyReturns
    \/ ProvingKeyBufferReturns
    \/ FetchVerificationKeyReturns
    \/ VerificationKeyJsonReturns
    \/ GenProofReturns
    \/ PostApiReturns
    \/ ResponseJsonReturns
    \/ SleepReturns
    \/ GetBalanceAfterReturns

Spec == Init /\ [][Next]_vars

\* ------------------------------------------------------------ the claims
Range(q) == {q[k] : k \in DOMAIN q}

Last(q) == q[Len(q)]

\* C1: in every interleaving of the timer's expiry, the re-renders and the
\* manual trigger, withdraw() is invoked at most once, and it has been invoked
\* exactly when the latch withdrawStarted is set.
C1_AtMostOnePipeline ==
    /\ Len(calls) <= 1
    /\ withdrawStarted <=> Len(calls) = 1

\* both triggers fired: the attempt was started by the click and is still
\* running when the timer has expired with the automatic trigger's other
\* conditions true
C1_Witness ==
    /\ Len(calls) = 1
    /\ calls[1].trigger = "manual"
    /\ calls[1].pc \in Running
    /\ countdownDone /\ timerLeft = 0 /\ mounted
    /\ ~midnightOver(identityStored)

\* C2: a press of the manual trigger while an attempt is running finds the
\* latch withdrawStarted set and invokes withdraw() zero times.
C2_SecondPressStartsNothing ==
    [][(presses' = presses + 1 /\ InFlight) => (withdrawStarted /\ calls' = calls)]_vars

\* the click started the attempt, and a later press came while it was running
C2_Witness ==
    /\ presses >= 2
    /\ pressInFlight
    /\ withdrawBtnClicked
    /\ Len(calls) = 1
    /\ calls[1].trigger = "manual"
    /\ calls[1].pc \in Running

\* C3: the page writes the store at most once per record, only by an attempt whose
\* answer from the relayer was a success, with the txHash of that answer; an
\* attempt that ended without a success answer wrote nothing, and nothing is
\* written in a session that reports an error.
C3_StoreWrittenOnSuccessOnly ==
    /\ \A j, k \in DOMAIN storeWrites :
         storeWrites[j].rec = storeWrites[k].rec => j = k
    /\ \A k \in DOMAIN storeWrites :
         LET w == storeWrites[k] IN
           /\ calls[w.by].resp = "result"
           /\ calls[w.by].hash = w.hash
           /\ calls[w.by].rec = w.rec
           /\ store[w.rec].withdrawTxHash = w.hash
    /\ \A r \in DOMAIN store :
         store[r].withdrawTxHash \notin {"", ForeignHash} =>
           \E k \in DOMAIN storeWrites : storeWrites[k].rec = r
    /\ errorMsg # "" => storeWrites = <<>>

\* the relayer answered with a success and the record carries its txHash
C3_Witness ==
    \E i \in DOMAIN calls :
      /\ calls[i].resp = "result"
      /\ calls[i].pc = "done"
      /\ store[calls[i].rec].withdrawTxHash = calls[i].hash
      /\ txHash = calls[i].hash

\* C4: after the relayer's BACKEND_MIX_PROOF_PRE_BROADCAST_INVALID the attempt
\* has ended, the page (while it is rendered) carries the pre-broadcast error
\* message, no txHash is exposed and the page has written nothing to the store.
C4_PreBroadcastFails ==
    \A i \in DOMAIN calls :
      calls[i].resp = "preBroadcast" =>
        /\ calls[i].pc = "done"
        /\ mounted => errorMsg = "The pre-broadcast check failed"
        /\ txHash = ""
        /\ storeWrites = <<>>
        /\ \A r \in DOMAIN store : store[r].withdrawTxHash \in {"", ForeignHash}

C4_Witness ==
    \E i \in DOMAIN calls :
      /\ calls[i].resp = "preBroadcast"
      /\ calls[i].pc = "done"
      /\ mounted

\* C5: when verifyProof returned false the POST to the relayer is never sent
\* and the attempt has ended; the page (while it is rendered) carries the
\* message of INVALID_PROOF.
C5_NoSubmissionOfInvalidProof ==
    \A i \in DOMAIN calls :
      calls[i].fail = "verifyProof" =>
        /\ "postApi" \notin Range(calls[i].log)
        /\ calls[i].pc = "done"
        /\ calls[i].resp = "none"
        /\ mounted => errorMsg = "Invalid proof."

C5_Witness ==
    \E i \in DOMAIN calls :
      /\ calls[i].fail = "verifyProof"
      /\ Last(calls[i].log) = "verifyProof"
      /\ calls[i].pc = "done"
      /\ mounted

\* the calls of the try block up to the local verification of the proof
PipelineSteps ==
    {"getMixerContract", "getLeaves", "genTree", "genPathElementsAndIndex",
     "element_index", "path", "verifySignature", "fetchCircuit", "circuitJson",
     "genWitness", "checkWitness", "fetchProvingKey", "provingKeyBuffer",
     "fetchVerificationKey", "verificationKeyJson", "genProof", "verifyProof"}

\* C6: when a step of the pipeline fails, it is the last call the attempt
\* made: no later step is invoked, no proof package is built, nothing is
\* submitted and the store is unchanged.
C6_AbortOnFirstFailure ==
    \A i \in DOMAIN calls :
      calls[i].fail \in PipelineSteps =>
        /\ Last(calls[i].log) = calls[i].fail
        /\ calls[i].pc = "done"
        /\ "genMixParams" \notin Range(calls[i].log)
        /\ "postApi" \notin Range(calls[i].log)
        /\ \A k \in DOMAIN storeWrites : storeWrites[k].by # i
        /\ store[calls[i].rec].withdrawTxHash \in {"", ForeignHash}

C6_Witness ==
    \E i \in DOMAIN calls :
      /\ calls[i].fail = "checkWitness"
      /\ calls[i].pc = "done"
      /\ errorMsg = "Invalid witness."

\* C7: every failure raised after a trigger started an attempt is caught and
\* reported: the attempt has returned through the catch block and the page
\* (while it is rendered) carries an error message.
C7_EveryFailureReported ==
    \A i \in DOMAIN calls :
      (calls[i].fail # "none" /\ calls[i].pc \in Finished) =>
        (calls[i].pc = "done" /\ (mounted => errorMsg # ""))

\* C8: a submission that fails in transport, is answered with a malformed
\* response or with another structured error ends the attempt in Failed, with
\* an error message on the page while it is rendered.
C8_SubmissionFailureReported ==
    \A i \in DOMAIN calls :
      calls[i].resp \in {"transport", "malformed", "otherError"} =>
        (calls[i].pc = "done" /\ (mounted => errorMsg # ""))

\* C9: an attempt that was started and has run to its end has an outcome:
\* the page, while it is rendered, exposes a transaction hash or reports an
\* error.
C9_StartedAttemptHasOutcome ==
    \A i \in DOMAIN calls :
      (calls[i].pc \in Finished /\ mounted) => (txHash # "" \/ errorMsg # "")

\* C10: the automatic trigger sets the latch and invokes withdraw() only when
\* the chain context reports no error.
C10_AutoTriggerOnlyWithoutError ==
    \A i \in DOMAIN calls :
      calls[i].trigger = "auto" => calls[i].ctxErr = "none"

\* C11: the latch is one-way: once withdrawStarted is set it stays set, the
\* manual trigger is offered in no view, and no further invocation of
\* withdraw() is made, also after the attempt has succeeded or failed.
C11_LatchIsOneWay ==
    [][withdrawStarted =>
         /\ withdrawStarted'
         /\ ~WithdrawBtnShown
         /\ ~WithdrawBtnShown'
         /\ Len(calls') = Len(calls)]_vars

\* the attempt has failed, the context reports no error and the timer has
\* expired with the automatic trigger's other conditions true: neither
\* trigger is available any more
C11_Witness ==
    /\ withdrawStarted
    /\ Len(calls) = 1
    /\ calls[1].pc = "done"
    /\ errorMsg # ""
    /\ mounted /\ ctxError = "none"
    /\ countdownDone /\ timerLeft = 0 /\ ~midnightOver(identityStored)
    /\ presses >= 1
    /\ ~WithdrawBtnShown

\* C12: per activation the expiry takes effect exactly once: countdownDone
\* goes from false to true only in a step in which the timer finds no time
\* left, never returns to false (so never rises a second time), and is set as
\* soon as the timer has evaluated an expiry that has passed, also when that
\* expiry was already past at activation.
C12_ExpiryTakesEffectOnce ==
    [][/\ countdownDone => countdownDone'
       /\ (~countdownDone /\ countdownDone') =>
            (NoTimeLeft(timerExpiry, now') /\ timerLeft' = 0 /\ timerState' = "stopped")
       /\ (mounted' /\ timerState' # "init" /\ NoTimeLeft(timerExpiry, now')) =>
            countdownDone']_vars

\* an expiry already past at activation has taken effect, and later
\* re-evaluations (clock, context, press) have happened
C12_Witness ==
    /\ midnightOver(identityStored)
    /\ countdownDone
    /\ timerState = "stopped"
    /\ now > firstLoadTime
    /\ mounted

\* C13: for every deposit timestamp and every local timezone of the client,
\* days on which the local offset changes included, the midnight expiry is
\* exactly the start of the UTC day that follows the deposit's UTC day.
C13_MidnightExpiryIsNextUTCMidnight ==
    \A r \in DOMAIN store :
      MidnightExpiry(r) = ((store[r].timestamp \div DayLen) + 1) * DayLen

\* C14: while the displayed record was already past its midnight boundary at
\* first load, neither the remaining time nor the expiry time is displayed,
\* and every attempt on a record that was past its boundary at first load was
\* started by the manual trigger, never by the automatic one.
C14_PastMidnightIsManualOnly ==
    /\ midnightOver(identityStored) => (~CountdownShown /\ ~TimeStrShown)
    /\ \A i \in DOMAIN calls :
         midnightOver(calls[i].rec) => calls[i].trigger = "manual"

\* a session loaded after the boundary whose timer has expired at once, the
\* clock has moved on, and the only attempt was started by a press
C14_Witness ==
    /\ midnightOver(identityStored)
    /\ countdownDone /\ timerLeft = 0
    /\ now > firstLoadTime
    /\ Len(calls) = 1 /\ calls[1].trigger = "manual" /\ calls[1].pc = "done"
    /\ mounted

\* C15: the expiry instant is computed once per activation: whenever the
\* expiry time is displayed, the value the last render computed is the value
\* of the first render, which is the one the timer counts down to.
C15_ExpiryComputedOnce ==
    TimeStrShown => shownExpiry = timerExpiry

C17_FixedDelayOnlyBeforeMidnight ==
    /\ timerExpiry = IF ~endsAtMidnight /\ firstLoadTime <= MidnightExpiry(1)
                     THEN firstLoadTime + EndsAfterSecs
                     ELSE MidnightExpiry(1)
    /\ (~endsAtMidnight /\ midnightOver(1)) => timerState # "running"
    /\ (~endsAtMidnight /\ mounted /\ midnightOver(identityStored)) =>
         (shownExpiry = MidnightExpiry(identityStored) /\ ~CountdownShown)
    /\ \A i \in DOMAIN calls :
         (~endsAtMidnight /\ midnightOver(calls[i].rec)) => calls[i].trigger = "manual"

\* fixed-delay mode, page loaded after the boundary: the timer has stopped at
\* once, the clock has moved on and nothing was started
C17_Witness ==
    /\ ~endsAtMidnight
    /\ midnightOver(1)
    /\ timerState = "stopped"
    /\ timerExpiry = MidnightExpiry(1)
    /\ now > firstLoadTime
    /\ mounted /\ calls = <<>> /\ ~withdrawStarted

\* the calls of withdraw() in the order of the source text
PipelineOrder ==
    <<"getProvider", "getBalance", "getMixerContract", "getLeaves", "genTree",
      "genPubKey", "genIdentityCommitment", "genPathElementsAndIndex",
      "element_index", "path", "genSignalAndSignalHash", "genSignedMsg",
      "verifySignature", "fetchCircuit", "circuitJson", "genCircuit",
      "genWitness", "checkWitness", "fetchProvingKey", "provingKeyBuffer",
      "fetchVerificationKey", "verificationKeyJson", "unstringifyBigInts",
      "genProof", "genPublicSignals", "verifyProof", "genMixParams", "postApi",
      "responseJson", "updateWithdrawTxHash", "sleep", "getBalance">>

\* the entry of the call log for the call an attempt is waiting in
PendingCall(pc) ==
    IF pc \in {"getBalanceBefore", "getBalanceAfter"} THEN "getBalance" ELSE pc

\* C18: within one attempt the calls are made one after another in the order
\* of the source: the calls made so far are an initial part of that order, the
\* only call not yet returned is the last one made, and a call whose check
\* failed (signature, witness, proof) is the last call of the attempt, so
\* the circuit is fetched only after a valid signature, the keys only after a
\* checked witness and the submission only after a verified proof.
C18_StepsInOrder ==
    \A i \in DOMAIN calls : LET a == calls[i] IN
      /\ Len(a.log) <= Len(PipelineOrder)
      /\ a.log = SubSeq(PipelineOrder, 1, Len(a.log))
      /\ a.pc \in Running => Last(a.log) = PendingCall(a.pc)
      /\ a.fail \in {"verifySignature", "genWitness", "checkWitness", "verifyProof"} =>
           Last(a.log) = a.fail

\* an attempt that ran through every call of the pipeline
C18_Witness ==
    \E i \in DOMAIN calls :
      /\ calls[i].pc = "done"
      /\ calls[i].fail = "none"
      /\ calls[i].resp = "result"
      /\ calls[i].log = PipelineOrder

\* C19: success and failure exclude each other: in no state are both a
\* transaction hash and an error message set, also after the balance query
\* that follows the success response has failed.
C19_SuccessExcludesFailure ==
    ~(txHash # "" /\ errorMsg # "")

\* the page is still rendered, the hash is exposed, and the balance query
\* made after the success response has thrown into the catch block
C19_Witness ==
    /\ mounted
    /\ txHash # ""
    /\ errorMsg = ""
    /\ \E i \in DOMAIN calls :
         /\ calls[i].resp = "result"
         /\ calls[i].pc = "done"
         /\ calls[i].fail = "getBalance"

\* C20: the record whose withdrawTxHash an attempt writes is the record its
\* closure captured when it was triggered, with the hash of its own answer,
\* also when the first unwithdrawn record of the store was a different one at
\* the moment of the write; the page writes no other record.
C20_WritesCapturedRecord ==
    /\ \A k \in DOMAIN storeWrites :
         LET w == storeWrites[k] IN
           /\ w.rec = calls[w.by].rec
           /\ w.hash = calls[w.by].hash
           /\ store[calls[w.by].rec].withdrawTxHash = calls[w.by].hash
    /\ \A r \in DOMAIN store :
         store[r].withdrawTxHash \in TxHashes =>
           \E i \in DOMAIN calls : calls[i].rec = r /\ calls[i].hash = store[r].withdrawTxHash

\* the store changed while the attempt was in flight: at the write the first
\* unwithdrawn record was not the captured one, and the page had re-read it
C20_Witness ==
    \E k \in DOMAIN storeWrites :
      /\ storeWrites[k].first # storeWrites[k].rec
      /\ storeWrites[k].first # 0
      /\ identityStored # storeWrites[k].rec
      /\ store[storeWrites[k].rec].withdrawTxHash = storeWrites[k].hash

====
